---- MODULE Spec2Model ----
(***************************************************************************)
(* PEtab SBML helpers (src/petab/sbml.py): the assignment-rule extraction  *)
(* helpers and get_model_for_condition, which derives a condition-specific *)
(* copy of an SBML model.  A libsbml document lives in the heap under a    *)
(* reference; identifiers are strings, written as tuples of characters so  *)
(* that prefix tests and substitutions are computed on the characters.     *)
(***************************************************************************)
EXTENDS Integers, Sequences, FiniteSets, TLC

VARIABLES heap, call, ret

vars == <<heap, call, ret>>

(***************************************************************************)
(* Bounds                                                                  *)
(***************************************************************************)
\* literal override values and nominal values range over 0..MaxValue
MaxValue == 1

(***************************************************************************)
(* Identifiers                                                             *)
(***************************************************************************)
k1 == <<"k", "1">>
k2 == <<"k", "2">>
S1 == <<"S", "1">>
C1 == <<"C", "1">>
e1 == <<"e", "1">>
colX == <<"X">>
condA == <<"c", "A">>
condB == <<"c", "B">>

(***************************************************************************)
(* Python values: None, a float, or a str                                  *)
(***************************************************************************)
None == [t |-> "None", n |-> 0, s |-> <<>>]
Num(n) == [t |-> "float", n |-> n, s |-> <<>>]
Str(s) == [t |-> "str", n |-> 0, s |-> s]

\* isinstance(v, Number)
IsNumber(v) == v.t = "float"

\* bool(v), as used by "if new_value:"
Truthy(v) ==
    CASE v.t = "None" -> FALSE
      [] v.t = "float" -> v.n # 0
      [] OTHER -> v.s # <<>>

\* dict.get(key): None when the key is absent
DictGet(d, key) == IF key \in DOMAIN d THEN d[key] ELSE None

(***************************************************************************)
(* Sequence helpers                                                        *)
(***************************************************************************)
\* the least index of a set of indices, 0 when the set is empty
FirstIndex(indices) ==
    IF indices = {} THEN 0
    ELSE CHOOSE i \in indices : \A j \in indices : i <= j

\* seq without its i-th element
RemoveAt(seq, i) ==
    [j \in 1..(Len(seq) - 1) |-> IF j < i THEN seq[j] ELSE seq[j + 1]]

(***************************************************************************)
(* libsbml objects                                                         *)
(*   model: [parameters, species, compartments, rules, initialAssignments] *)
(***************************************************************************)
ASSIGNMENT_RULE == "SBML_ASSIGNMENT_RULE"
RATE_RULE == "SBML_RATE_RULE"
ALGEBRAIC_RULE == "SBML_ALGEBRAIC_RULE"

\* Model.getParameter(sid) / getSpecies(sid) / getCompartment(sid): the index
\* of the element, 0 for None
getParameter(m, sid) ==
    FirstIndex({ i \in DOMAIN m.parameters : m.parameters[i].id = sid })
getSpecies(m, sid) ==
    FirstIndex({ i \in DOMAIN m.species : m.species[i].id = sid })
getCompartment(m, sid) ==
    FirstIndex({ i \in DOMAIN m.compartments : m.compartments[i].id = sid })

\* Model.getRuleByVariable(sid): index of the first rule with that variable
getRuleByVariable(m, sid) ==
    FirstIndex({ i \in DOMAIN m.rules : m.rules[i].variable = sid })

\* Model.removeRuleByVariable(sid): removes the first rule whose variable is
\* sid; "removed" tells whether a rule was returned
removeRuleByVariable(m, sid) ==
    LET i == getRuleByVariable(m, sid)
    IN  IF i = 0
        THEN [model |-> m, removed |-> FALSE]
        ELSE [model |-> [m EXCEPT !.rules = RemoveAt(m.rules, i)],
              removed |-> TRUE]

\* Model.removeInitialAssignment(symbol)
removeInitialAssignment(m, symbol) ==
    LET i == FirstIndex({ j \in DOMAIN m.initialAssignments :
                              m.initialAssignments[j].symbol = symbol })
    IN  IF i = 0 THEN m
        ELSE [m EXCEPT !.initialAssignments = RemoveAt(m.initialAssignments, i)]

\* Model.removeParameter(sid)
removeParameter(m, sid) ==
    LET i == getParameter(m, sid)
    IN  IF i = 0 THEN m
        ELSE [m EXCEPT !.parameters = RemoveAt(m.parameters, i)]

\* Parameter.setValue(value) on the i-th parameter
setValue(m, i, value) == [m EXCEPT !.parameters[i].value = value]

\* Species.setInitialAmount(value): also unsets the initial concentration
setInitialAmount(sp, value) ==
    [sp EXCEPT !.initialAmount = value,
               !.isSetInitialAmount = TRUE,
               !.initialConcentration = 0,
               !.isSetInitialConcentration = FALSE]

\* Species.setInitialConcentration(value): also unsets the initial amount
setInitialConcentration(sp, value) ==
    [sp EXCEPT !.initialConcentration = value,
               !.isSetInitialConcentration = TRUE,
               !.initialAmount = 0,
               !.isSetInitialAmount = FALSE]

\* Compartment.setSize(value) on the i-th compartment
setSize(m, i, value) == [m EXCEPT !.compartments[i].size = value]

\* a clone that shares the document with the original
CloneAliased(h, r) == [heap |-> h, ref |-> r]

\* SBMLDocument.clone(): a deep copy under a fresh reference
clone(h, r) ==
    [heap |-> [x \in DOMAIN h \cup {"clone"} |->
                  IF x = "clone" THEN h[r] ELSE h[x]],
     ref |-> "clone"]

(***************************************************************************)
(* get_model_for_condition                                                 *)
(***************************************************************************)
NoExc == "none"

\* get_param_value: parameter value from mapping or nominal value; the lookup
\* parameter_df.loc[...] raises KeyError for an id without a row
get_param_value(parameter_map, parameter_df, parameter_id) ==
    LET mapped_value == DictGet(parameter_map, parameter_id)
    IN  IF mapped_value.t # "str"
        THEN [exc |-> NoExc, val |-> mapped_value]
        ELSE IF mapped_value.s \in DOMAIN parameter_df
             THEN [exc |-> NoExc, val |-> Num(parameter_df[mapped_value.s])]
             ELSE [exc |-> "KeyError", val |-> None]

\* a warning for every target, whether or not a rule was removed
RemoveRulesWarnAlways(st, target_id) ==
    LET r == removeRuleByVariable(st.model, target_id)
    IN  [st EXCEPT
           !.model = removeInitialAssignment(r.model, target_id),
           !.warnings = Append(@, target_id)]

\* remove_rules: st is the working state [model, exc, warnings]
remove_rules(st, target_id) ==
    LET r == removeRuleByVariable(st.model, target_id)
    IN  [st EXCEPT
           !.model = removeInitialAssignment(r.model, target_id),
           !.warnings = IF r.removed THEN Append(@, target_id) ELSE @]

\* body of the loop over the parameters of the copy, for the i-th parameter
ParameterStep(st, i, parameter_map, parameter_df) ==
    LET parameter == st.model.parameters[i]
        new_value == get_param_value(parameter_map, parameter_df, parameter.id)
    IN  IF new_value.exc # NoExc
        THEN [st EXCEPT !.exc = new_value.exc]
        ELSE IF Truthy(new_value.val)
             THEN remove_rules(
                      [st EXCEPT !.model = setValue(@, i, new_value.val.n)],
                      parameter.id)
             ELSE st

RECURSIVE ParameterLoop(_, _, _, _)
ParameterLoop(st, i, parameter_map, parameter_df) ==
    IF st.exc # NoExc \/ i > Len(st.model.parameters)
    THEN st
    ELSE ParameterLoop(ParameterStep(st, i, parameter_map, parameter_df),
                       i + 1, parameter_map, parameter_df)

\* value of a decimal digit character, -1 for any other character
DigitValue(c) ==
    CASE c = "0" -> 0 [] c = "1" -> 1 [] c = "2" -> 2 [] c = "3" -> 3
      [] c = "4" -> 4 [] c = "5" -> 5 [] c = "6" -> 6 [] c = "7" -> 7
      [] c = "8" -> 8 [] c = "9" -> 9 [] OTHER -> -1

RECURSIVE ParseDigits(_)
ParseDigits(s) ==
    IF s = <<>> THEN 0
    ELSE 10 * ParseDigits(SubSeq(s, 1, Len(s) - 1)) + DigitValue(s[Len(s)])

\* petab.to_float_if_float: the float a cell converts to, else the cell itself
to_float_if_float(x) ==
    IF x.t = "str" /\ x.s # <<>> /\ \A i \in 1..Len(x.s) : DigitValue(x.s[i]) >= 0
    THEN Num(ParseDigits(x.s))
    ELSE x

\* the value to set for a condition-table cell: the cell's number, or the
\* parameter the cell names resolved with get_param_value
CellValue(cell, parameter_map, parameter_df) ==
    LET new_value == to_float_if_float(cell)
    IN  IF IsNumber(new_value)
        THEN [exc |-> NoExc, val |-> new_value]
        ELSE get_param_value(parameter_map, parameter_df, new_value.s)

\* the species keeps its initial amount and never gets a concentration
StoresAmountAlways(sp) == TRUE

\* the species stores an initial amount rather than a concentration
StoresAmount(sp) ==
    \/ sp.isSetInitialAmount
    \/ (sp.hasOnlySubstanceUnits /\ ~sp.isSetInitialConcentration)

\* a column that names no species of the model is an error
SpeciesStepStrict(st, component_id, cell, parameter_map, parameter_df) ==
    LET i == getSpecies(st.model, component_id)
        st1 == remove_rules(st, component_id)
        new_value == CellValue(cell, parameter_map, parameter_df)
        sbml_species == st1.model.species[i]
    IN  IF i = 0 THEN [st EXCEPT !.exc = "KeyError"]
        ELSE IF new_value.exc # NoExc THEN [st1 EXCEPT !.exc = new_value.exc]
        ELSE IF ~IsNumber(new_value.val) THEN [st1 EXCEPT !.exc = "TypeError"]
        ELSE [st1 EXCEPT !.model.species[i] =
                 IF StoresAmount(sbml_species)
                 THEN setInitialAmount(sbml_species, new_value.val.n)
                 ELSE setInitialConcentration(sbml_species, new_value.val.n)]

\* body of the loop over the condition table's columns that sets species
\* initial values; a None value makes the libsbml setter raise TypeError
SpeciesStep(st, component_id, cell, parameter_map, parameter_df) ==
    LET i == getSpecies(st.model, component_id)
        st1 == remove_rules(st, component_id)
        new_value == CellValue(cell, parameter_map, parameter_df)
        sbml_species == st1.model.species[i]
    IN  IF i = 0 THEN st
        ELSE IF new_value.exc # NoExc THEN [st1 EXCEPT !.exc = new_value.exc]
        ELSE IF ~IsNumber(new_value.val) THEN [st1 EXCEPT !.exc = "TypeError"]
        ELSE [st1 EXCEPT !.model.species[i] =
                 IF StoresAmount(sbml_species)
                 THEN setInitialAmount(sbml_species, new_value.val.n)
                 ELSE setInitialConcentration(sbml_species, new_value.val.n)]

\* body of the loop over the condition table's columns that sets compartment
\* sizes
CompartmentStep(st, component_id, cell, parameter_map, parameter_df) ==
    LET i == getCompartment(st.model, component_id)
        st1 == remove_rules(st, component_id)
        new_value == CellValue(cell, parameter_map, parameter_df)
    IN  IF i = 0 THEN st
        ELSE IF new_value.exc # NoExc THEN [st1 EXCEPT !.exc = new_value.exc]
        ELSE IF ~IsNumber(new_value.val) THEN [st1 EXCEPT !.exc = "TypeError"]
        ELSE [st1 EXCEPT !.model = setSize(@, i, new_value.val.n)]

\* the cell of the table's first row, whatever condition is asked for
LocFirstRow(condition_df, sim_condition_id, component_id) ==
    condition_df.rows[condA][component_id]

\* condition_df.loc[sim_condition_id, component_id]
Loc(condition_df, sim_condition_id, component_id) ==
    condition_df.rows[sim_condition_id][component_id]

RECURSIVE SpeciesLoop(_, _, _, _, _, _)
SpeciesLoop(st, j, sim_condition_id, condition_df, parameter_map, parameter_df) ==
    IF st.exc # NoExc \/ j > Len(condition_df.columns)
    THEN st
    ELSE SpeciesLoop(
             SpeciesStep(st, condition_df.columns[j],
                         Loc(condition_df, sim_condition_id, condition_df.columns[j]),
                         parameter_map, parameter_df),
             j + 1, sim_condition_id, condition_df, parameter_map, parameter_df)

RECURSIVE CompartmentLoop(_, _, _, _, _, _)
CompartmentLoop(st, j, sim_condition_id, condition_df, parameter_map, parameter_df) ==
    IF st.exc # NoExc \/ j > Len(condition_df.columns)
    THEN st
    ELSE CompartmentLoop(
             CompartmentStep(st, condition_df.columns[j],
                             Loc(condition_df, sim_condition_id, condition_df.columns[j]),
                             parameter_map, parameter_df),
             j + 1, sim_condition_id, condition_df, parameter_map, parameter_df)

\* get_model_for_condition from the copy on: returns the heap after the call,
\* the exception raised (NoExc when it returns), the reference of the returned
\* model and the warnings issued
get_model_for_condition(h, sbml_model, sim_condition_id, condition_df, parameter_df, parameter_map) ==
    LET sbml_doc == clone(h, sbml_model)
        st0 == [model |-> sbml_doc.heap[sbml_doc.ref], exc |-> NoExc,
                warnings |-> <<>>]
        st1 == ParameterLoop(st0, 1, parameter_map, parameter_df)
        st2 == SpeciesLoop(st1, 1, sim_condition_id, condition_df,
                           parameter_map, parameter_df)
        st3 == CompartmentLoop(st2, 1, sim_condition_id, condition_df,
                               parameter_map, parameter_df)
    IN  [heap |-> [sbml_doc.heap EXCEPT ![sbml_doc.ref] = st3.model],
         exc |-> st3.exc,
         ref |-> sbml_doc.ref,
         warnings |-> st3.warnings]

(***************************************************************************)
(* Rule formulas: the math of a rule is a tree, rendered to an infix       *)
(* string by libsbml.formulaToL3String                                     *)
(***************************************************************************)
AstName(id) == <<"name", id>>
AstInt(n) == <<"integer", n>>
AstPlus(a, b) == <<"plus", a, b>>
AstTimes(a, b) == <<"times", a, b>>
\* Rule.getMath() of a rule without math
NoMath == <<"unset">>

Digits == <<"0", "1", "2", "3", "4", "5", "6", "7", "8", "9">>

RECURSIVE IntToString(_)
IntToString(n) ==
    IF n < 10 THEN <<Digits[n + 1]>>
    ELSE IntToString(n \div 10) \o <<Digits[(n % 10) + 1]>>

RECURSIVE L3String(_)
L3String(ast) ==
    LET Operand(a) == IF a[1] = "plus"
                      THEN <<"(">> \o L3String(a) \o <<")">>
                      ELSE L3String(a)
    IN  CASE ast[1] = "name" -> ast[2]
          [] ast[1] = "integer" -> IntToString(ast[2])
          [] ast[1] = "plus" ->
                 L3String(ast[2]) \o <<" ", "+", " ">> \o L3String(ast[3])
          [] ast[1] = "times" ->
                 Operand(ast[2]) \o <<" ", "*", " ">> \o Operand(ast[3])

\* libsbml.formulaToL3String(rule.getMath()): None for a rule without math
formulaToL3String(ast) == IF ast = NoMath THEN None ELSE Str(L3String(ast))

(***************************************************************************)
(* Base models and inputs of get_model_for_condition                       *)
(***************************************************************************)
Absent == [t |-> "absent", n |-> 0, s |-> <<>>]

\* a model with parameters k1, k2, species S1 in compartment C1; ruleOn gives
\* the type of the rule on each of k1, S1, C1 ("" for no rule), iaOn the
\* targets of initial assignments; ids are unique and each id is the variable
\* of at most one rule
BaseModel(ruleOn, iaOn, isAmount, isConc, hosu) ==
    [parameters |-> <<[id |-> k1, name |-> <<"K">>, value |-> 5],
                      [id |-> k2, name |-> <<>>, value |-> 6]>>,
     species |-> <<[id |-> S1, compartment |-> C1,
                    hasOnlySubstanceUnits |-> hosu,
                    isSetInitialAmount |-> isAmount,
                    initialAmount |-> IF isAmount THEN 4 ELSE 0,
                    isSetInitialConcentration |-> isConc,
                    initialConcentration |-> IF isConc THEN 4 ELSE 0]>>,
     compartments |-> <<[id |-> C1, size |-> 3]>>,
     rules |-> SelectSeq(
         <<[typecode |-> ruleOn[k1], variable |-> k1,
            math |-> AstTimes(AstName(k2), AstInt(2))],
           [typecode |-> ruleOn[S1], variable |-> S1, math |-> AstName(k2)],
           [typecode |-> ruleOn[C1], variable |-> C1, math |-> AstInt(1)]>>,
         LAMBDA r : r.typecode # ""),
     initialAssignments |-> SelectSeq(
         <<[symbol |-> k1, math |-> AstInt(2)],
           [symbol |-> S1, math |-> AstName(k1)],
           [symbol |-> C1, math |-> AstName(k2)]>>,
         LAMBDA a : a.symbol \in iaOn)]

BaseModels ==
    { BaseModel(ruleOn, iaOn, isAmount, isConc, hosu) :
        ruleOn \in [{k1, S1, C1} -> {"", ASSIGNMENT_RULE}],
        iaOn \in {{}, {k1}, {S1, C1}, {k1, S1, C1}},
        isAmount \in BOOLEAN, isConc \in BOOLEAN, hosu \in BOOLEAN }

Literals == { Num(n) : n \in 0..MaxValue }

\* a dict from the keys whose value is not Absent
DictOf(keys, value) ==
    [key \in { x \in keys : value[x] # Absent } |-> value[key]]

\* parameter mappings: k1 unmapped, mapped to a literal or to the estimated
\* parameter e1; e1 unmapped, mapped to a literal or to itself
ParameterMaps ==
    { DictOf({k1, e1}, [x \in {k1, e1} |-> IF x = k1 THEN a ELSE b]) :
        a \in {Absent, Str(e1)} \cup Literals,
        b \in {Absent, Str(e1), Num(1)} }

\* parameter tables (id -> nominalValue): with or without a row for e1
ParameterDfs ==
    { [x \in {} |-> 0] } \cup { [x \in {e1} |-> n] : n \in 0..MaxValue }

\* condition tables with rows condA and condB and any of the columns X, S1,
\* C1; row condB holds 7 in every column
ConditionDf(cellX, cellS1, cellC1) ==
    LET cell == [x \in {colX, S1, C1} |->
                    IF x = colX THEN cellX ELSE IF x = S1 THEN cellS1 ELSE cellC1]
        present == { x \in {colX, S1, C1} : cell[x] # Absent }
    IN  [columns |-> SelectSeq(<<colX, S1, C1>>, LAMBDA x : x \in present),
         rows |-> [c \in {condA, condB} |->
                      [x \in present |-> IF c = condA THEN cell[x] ELSE Num(7)]]]

ConditionDfs ==
    { ConditionDf(cellX, cellS1, cellC1) :
        cellX \in {Absent, Num(1)},
        cellS1 \in {Absent, Str(e1)} \cup Literals,
        cellC1 \in {Absent, Str(e1), Str(<<"1", "2">>)} }

(***************************************************************************)
(* State machine of get_model_for_condition                                *)
(***************************************************************************)
Idle == [op |-> "idle"]
NoRet == [exc |-> NoExc, ref |-> "", warnings |-> <<>>]

InitCondition ==
    /\ \E m \in BaseModels : heap = [x \in {"base"} |-> m]
    /\ call = Idle
    /\ ret = NoRet

\* a caller invokes get_model_for_condition on the problem's model; when the
\* call raises, the copy is unreachable and only the caller's objects remain
GetModelForCondition ==
    /\ call.op = "idle"
    /\ \E sim_condition_id \in {condA, condB}, condition_df \in ConditionDfs,
          parameter_df \in ParameterDfs, parameter_map \in ParameterMaps :
         \E out \in {get_model_for_condition(heap, "base", sim_condition_id,
                        condition_df, parameter_df, parameter_map)} :
             /\ heap' = IF out.exc = NoExc THEN out.heap
                        ELSE [x \in DOMAIN heap |-> out.heap[x]]
             /\ call' = [op |-> "get_model_for_condition",
                         sim_condition_id |-> sim_condition_id,
                         condition_df |-> condition_df,
                         parameter_df |-> parameter_df,
                         parameter_map |-> parameter_map]
             /\ ret' = [exc |-> out.exc,
                        ref |-> IF out.exc = NoExc THEN out.ref ELSE "",
                        warnings |-> out.warnings]

\* the caller edits the model it got back: new values everywhere, all rules
\* and initial assignments dropped
EditedModel(m) ==
    [parameters |-> [i \in DOMAIN m.parameters |->
                        [m.parameters[i] EXCEPT !.value = 9]],
     species |-> [i \in DOMAIN m.species |-> setInitialAmount(m.species[i], 9)],
     compartments |-> [i \in DOMAIN m.compartments |->
                          [m.compartments[i] EXCEPT !.size = 9]],
     rules |-> <<>>,
     initialAssignments |-> <<>>]

EditReturned ==
    /\ call.op = "get_model_for_condition"
    /\ ret.exc = NoExc
    /\ heap' = [heap EXCEPT ![ret.ref] = EditedModel(@)]
    /\ call' = [call EXCEPT !.op = "edited"]
    /\ UNCHANGED ret

\* the caller drops the result of the call
Discard ==
    /\ call.op \in {"get_model_for_condition", "edited"}
    /\ heap' = [x \in {"base"} |-> heap["base"]]
    /\ call' = Idle
    /\ ret' = NoRet

NextCondition == GetModelForCondition \/ EditReturned \/ Discard

SpecCondition == InitCondition /\ [][NextCondition]_vars

(***************************************************************************)
(* assignment_rules_to_dict, get_observables, get_sigmas                   *)
(***************************************************************************)
sigma_ == <<"s", "i", "g", "m", "a", "_">>
observable_ == <<"o", "b", "s", "e", "r", "v", "a", "b", "l", "e", "_">>
sigma_a == sigma_ \o <<"a">>
sigma_sigma_ == sigma_ \o sigma_
observable_a == observable_ \o <<"a">>

\* str.startswith(prefix)
StartsWith(str, prefix) ==
    /\ Len(str) >= Len(prefix)
    /\ SubSeq(str, 1, Len(prefix)) = prefix

\* sbml_parameter_is_observable
sbml_parameter_is_observable(sbml_parameter) ==
    StartsWith(sbml_parameter.id, observable_)

\* sbml_parameter_is_sigma
sbml_parameter_is_sigma(sbml_parameter) ==
    StartsWith(sbml_parameter.id, sigma_)

\* the filter callbacks, by name; "all" is the default lambda *_: True
ApplyFilter(filter_function, parameter) ==
    CASE filter_function = "sbml_parameter_is_observable" ->
             sbml_parameter_is_observable(parameter)
      [] filter_function = "sbml_parameter_is_sigma" ->
             sbml_parameter_is_sigma(parameter)
      [] OTHER -> TRUE

\* a Python dict: the sequence of its items [key, value] in insertion order
DictKeys(d) == { d[i].key : i \in DOMAIN d }

\* d[key] = value
DictSetItem(d, key, value) ==
    LET i == FirstIndex({ j \in DOMAIN d : d[j].key = key })
    IN  IF i = 0 THEN Append(d, [key |-> key, value |-> value])
        ELSE [d EXCEPT ![i].value = value]

\* the loop body without the type-code test
RuleStepAnyType(m, filter_function, rule, result) ==
    LET assignee == rule.variable
        i == getParameter(m, assignee)
    IN  IF i # 0 /\ ApplyFilter(filter_function, m.parameters[i])
        THEN DictSetItem(result, assignee,
                 [name |-> m.parameters[i].name,
                  formula |-> formulaToL3String(rule.math)])
        ELSE result

\* body of the loop over the rules of assignment_rules_to_dict
RuleStep(m, filter_function, rule, result) ==
    LET assignee == rule.variable
        i == getParameter(m, assignee)
    IN  IF rule.typecode # ASSIGNMENT_RULE THEN result
        ELSE IF i # 0 /\ ApplyFilter(filter_function, m.parameters[i])
        THEN DictSetItem(result, assignee,
                 [name |-> m.parameters[i].name,
                  formula |-> formulaToL3String(rule.math)])
        ELSE result

RECURSIVE RuleLoop(_, _, _, _)
RuleLoop(m, filter_function, j, result) ==
    IF j > Len(m.rules) THEN result
    ELSE RuleLoop(m, filter_function, j + 1,
                  RuleStep(m, filter_function, m.rules[j], result))

\* removal that drops the rule and keeps the parameter
RemoveStepRuleOnly(m, parameter_id) == removeRuleByVariable(m, parameter_id).model

\* body of the removal loop: the rule, then the parameter
RemoveStep(m, parameter_id) ==
    removeParameter(removeRuleByVariable(m, parameter_id).model, parameter_id)

RECURSIVE RemoveLoop(_, _, _)
RemoveLoop(m, result, j) ==
    IF j > Len(result) THEN m
    ELSE RemoveLoop(RemoveStep(m, result[j].key), result, j + 1)

\* removal performed whatever the flag says
RemoveMatchingAlways(m, result, remove) == RemoveLoop(m, result, 1)

\* "if remove:" and the loop under it
RemoveMatching(m, result, remove) ==
    IF remove THEN RemoveLoop(m, result, 1) ELSE m

\* assignment_rules_to_dict: the model after the call and the returned dict
assignment_rules_to_dict(sbml_model, filter_function, remove) ==
    LET result == RuleLoop(sbml_model, filter_function, 1, <<>>)
    IN  [model |-> RemoveMatching(sbml_model, result, remove),
         result |-> result]

\* get_observables
get_observables(sbml_model, remove) ==
    assignment_rules_to_dict(sbml_model, "sbml_parameter_is_observable", remove)

\* the key left as it is
KeepKey(key) == key

\* re.sub('^sigma_', 'observable_', key)
ReSubSigma(key) ==
    IF StartsWith(key, sigma_)
    THEN observable_ \o SubSeq(key, Len(sigma_) + 1, Len(key))
    ELSE key

\* {re.sub(...): value['formula'] for key, value in sigmas.items()}
RECURSIVE SigmaComprehension(_, _, _)
SigmaComprehension(sigmas, j, result) ==
    IF j > Len(sigmas) THEN result
    ELSE SigmaComprehension(sigmas, j + 1,
             DictSetItem(result, ReSubSigma(sigmas[j].key),
                         sigmas[j].value.formula))

\* get_sigmas
get_sigmas(sbml_model, remove) ==
    LET sigmas == assignment_rules_to_dict(sbml_model,
                      "sbml_parameter_is_sigma", remove)
    IN  [model |-> sigmas.model,
         result |-> SigmaComprehension(sigmas.result, 1, <<>>)]

(***************************************************************************)
(* State machine of the rule helpers                                       *)
(***************************************************************************)
\* a model with parameters sigma_a, sigma_sigma_, observable_a, k1, species
\* S1 and compartment C1; ruleOn gives the type of the rule on each of the
\* parameters and on S1 ("" for no rule); algebraic adds an algebraic rule,
\* whose variable is empty
RuleModel(ruleOn, algebraic) ==
    [parameters |-> <<[id |-> sigma_a, name |-> <<"n", "a">>, value |-> 1],
                      [id |-> observable_a, name |-> <<>>, value |-> 2],
                      [id |-> sigma_sigma_, name |-> sigma_a, value |-> 3],
                      [id |-> k1, name |-> <<"K">>, value |-> 5]>>,
     species |-> <<[id |-> S1, compartment |-> C1,
                    hasOnlySubstanceUnits |-> FALSE,
                    isSetInitialAmount |-> TRUE,
                    initialAmount |-> 4,
                    isSetInitialConcentration |-> FALSE,
                    initialConcentration |-> 0]>>,
     compartments |-> <<[id |-> C1, size |-> 3]>>,
     rules |-> SelectSeq(
         <<[typecode |-> ruleOn[observable_a], variable |-> observable_a,
            math |-> AstTimes(AstPlus(AstName(S1), AstName(k1)), AstInt(2))],
           [typecode |-> IF algebraic THEN ALGEBRAIC_RULE ELSE "",
            variable |-> <<>>, math |-> AstName(S1)],
           [typecode |-> ruleOn[sigma_a], variable |-> sigma_a,
            math |-> AstPlus(AstName(k1), AstInt(10))],
           [typecode |-> ruleOn[S1], variable |-> S1, math |-> AstName(k1)],
           [typecode |-> ruleOn[sigma_sigma_], variable |-> sigma_sigma_,
            math |-> NoMath],
           [typecode |-> ruleOn[k1], variable |-> k1, math |-> AstInt(1)]>>,
         LAMBDA r : r.typecode # ""),
     initialAssignments |-> <<[symbol |-> k1, math |-> AstInt(2)]>>]

RuleModels ==
    { RuleModel(ruleOn, algebraic) :
        ruleOn \in [{sigma_a, observable_a, sigma_sigma_, k1, S1} ->
                       {"", ASSIGNMENT_RULE, RATE_RULE}],
        algebraic \in BOOLEAN }

FilterFunctions == {"all", "sbml_parameter_is_observable", "sbml_parameter_is_sigma"}

Start == [op |-> "start", filter_function |-> "", remove |-> FALSE, before |-> <<>>]

InitRules ==
    /\ \E m \in RuleModels : heap = [x \in {"base"} |-> m]
    /\ call = Start
    /\ ret = [result |-> <<>>]

AssignmentRulesToDict ==
    \E filter_function \in FilterFunctions, remove \in BOOLEAN :
      \E out \in {assignment_rules_to_dict(heap["base"], filter_function, remove)} :
        /\ heap' = [heap EXCEPT !["base"] = out.model]
        /\ call' = [op |-> "assignment_rules_to_dict",
                    filter_function |-> filter_function,
                    remove |-> remove, before |-> heap["base"]]
        /\ ret' = [result |-> out.result]

GetObservables ==
    \E remove \in BOOLEAN :
      \E out \in {get_observables(heap["base"], remove)} :
        /\ heap' = [heap EXCEPT !["base"] = out.model]
        /\ call' = [op |-> "get_observables",
                    filter_function |-> "sbml_parameter_is_observable",
                    remove |-> remove, before |-> heap["base"]]
        /\ ret' = [result |-> out.result]

GetSigmas ==
    \E remove \in BOOLEAN :
      \E out \in {get_sigmas(heap["base"], remove)} :
        /\ heap' = [heap EXCEPT !["base"] = out.model]
        /\ call' = [op |-> "get_sigmas",
                    filter_function |-> "sbml_parameter_is_sigma",
                    remove |-> remove, before |-> heap["base"]]
        /\ ret' = [result |-> out.result]

NextRules == AssignmentRulesToDict \/ GetObservables \/ GetSigmas

SpecRules == InitRules /\ [][NextRules]_vars

(***************************************************************************)
(* Python objects held by the model wrappers                               *)
(***************************************************************************)
\* Python bool
Bool(b) == [t |-> "bool", n |-> IF b THEN 1 ELSE 0, s |-> <<>>]

\* an object is its class, the parameters of a pysb model, and the content
\* of a libsbml model; objects of other classes have neither
EmptySbml ==
    [parameters |-> <<>>, species |-> <<>>, compartments |-> <<>>,
     rules |-> <<>>, initialAssignments |-> <<>>]
PyNone == [cls |-> "NoneType", parameters |-> <<>>, sbml |-> EmptySbml]
\* a non-empty dict: truthy, and not a model
PyDict == [cls |-> "dict", parameters |-> <<>>, sbml |-> EmptySbml]
libsbml_Model(m) == [cls |-> "libsbml.Model", parameters |-> <<>>, sbml |-> m]
pysb_Model(parameters) ==
    [cls |-> "pysb.Model", parameters |-> parameters, sbml |-> EmptySbml]

\* bool(obj), as used by "if model:"
PyTruthy(obj) == obj.cls # "NoneType"
isinstance(obj, cls) == obj.cls = cls

(***************************************************************************)
(* Loading: get_sbml_model, _pysb_model_from_path, from_file, model_factory *)
(***************************************************************************)
\* SBMLDocument.getModel() of the document the reader built from the source:
\* None unless the source holds SBML with a model
getModel(source) ==
    IF source.kind = "sbml" THEN libsbml_Model(source.sbml) ELSE PyNone

load_sbml_from_string(source) == [exc |-> NoExc, sbml_model |-> getModel(source)]

load_sbml_from_file(source) == [exc |-> NoExc, sbml_model |-> getModel(source)]

\* get_sbml_model: a file-like object or a URL is read through get_handle,
\* which raises for a URL that cannot be fetched; a path goes to the reader
get_sbml_model(filepath_or_buffer) ==
    IF filepath_or_buffer.how \in {"buffer", "url"}
    THEN IF filepath_or_buffer.kind = "missing"
         THEN [exc |-> "URLError", sbml_model |-> PyNone]
         ELSE load_sbml_from_string(filepath_or_buffer)
    ELSE load_sbml_from_file(filepath_or_buffer)

\* the module cannot be executed: Path() of a file object, a file that is
\* not there, a file that is not Python
ExecModule(pysb_model_file) ==
    IF pysb_model_file.how = "buffer" THEN "TypeError"
    ELSE IF pysb_model_file.how = "url" \/ pysb_model_file.kind = "missing"
    THEN "FileNotFoundError"
    ELSE IF pysb_model_file.kind # "python" THEN "SyntaxError"
    ELSE NoExc

\* getattr(module, name, None); attrs lists the module's attributes in the
\* order of dir(module)
getattr(attrs, name) ==
    LET i == FirstIndex({ j \in DOMAIN attrs : attrs[j].name = name })
    IN  IF i = 0 THEN PyNone ELSE attrs[i].value

_pysb_model_from_path(pysb_model_file) ==
    LET attrs == pysb_model_file.attrs
        model == getattr(attrs, "model")
        i == FirstIndex({ j \in DOMAIN attrs :
                            isinstance(attrs[j].value, "pysb.Model") })
    IN  IF ExecModule(pysb_model_file) # NoExc
        THEN [exc |-> ExecModule(pysb_model_file), model |-> PyNone]
        ELSE IF PyTruthy(model) THEN [exc |-> NoExc, model |-> model]
        ELSE IF i # 0 THEN [exc |-> NoExc, model |-> attrs[i].value]
        ELSE [exc |-> "ValueError", model |-> PyNone]

\* a wrapper object: its class and the model object it holds
NoModel == [cls |-> "", model |-> PyNone]

SbmlModel_from_file(filepath_or_buffer) ==
    LET data == get_sbml_model(filepath_or_buffer)
    IN  [exc |-> data.exc,
         model |-> IF data.exc = NoExc
                   THEN [cls |-> "SbmlModel", model |-> data.sbml_model]
                   ELSE NoModel,
         loaders |-> <<"get_sbml_model">>]

PySBModel_from_file(filepath_or_buffer) ==
    LET data == _pysb_model_from_path(filepath_or_buffer)
    IN  [exc |-> data.exc,
         model |-> IF data.exc = NoExc
                   THEN [cls |-> "PySBModel", model |-> data.model]
                   ELSE NoModel,
         loaders |-> <<"_pysb_model_from_path">>]

\* a factory that takes any tag but "pysb" for SBML
ModelFactorySbmlByDefault(filepath_or_buffer, model_language) ==
    IF model_language = "pysb"
    THEN PySBModel_from_file(filepath_or_buffer)
    ELSE SbmlModel_from_file(filepath_or_buffer)

model_factory(filepath_or_buffer, model_language) ==
    IF model_language = "sbml"
    THEN SbmlModel_from_file(filepath_or_buffer)
    ELSE IF model_language = "pysb"
    THEN PySBModel_from_file(filepath_or_buffer)
    ELSE [exc |-> "ValueError", model |-> NoModel, loaders |-> <<>>]

(***************************************************************************)
(* Queries of the wrappers                                                 *)
(***************************************************************************)
NoPairs == <<>>

\* the methods of the base class Model have the body "...": a subclass that
\* does not override one inherits a method that returns None
Model_get_parameter_value(self, id_) ==
    [exc |-> NoExc, value |-> None, pairs |-> NoPairs]

Model_has_species_with_id(self, entity_id) ==
    [exc |-> NoExc, value |-> None, pairs |-> NoPairs]

Model_has_compartment_with_id(self, entity_id) ==
    [exc |-> NoExc, value |-> None, pairs |-> NoPairs]

\* an attribute or method the held object does not have
AttributeError == [exc |-> "AttributeError", value |-> None, pairs |-> NoPairs]

\* Model.getAssignmentRuleByVariable(sid): index of the assignment rule with
\* that variable, 0 for None
getAssignmentRuleByVariable(m, sid) ==
    FirstIndex({ i \in DOMAIN m.rules :
                   /\ m.rules[i].typecode = ASSIGNMENT_RULE
                   /\ m.rules[i].variable = sid })

SbmlModel_get_parameter_ids_with_values(self) ==
    LET ps == SelectSeq(self.model.sbml.parameters,
                LAMBDA p : getAssignmentRuleByVariable(self.model.sbml, p.id) = 0)
    IN  IF ~isinstance(self.model, "libsbml.Model") THEN AttributeError
        ELSE [exc |-> NoExc, value |-> None,
              pairs |-> [j \in DOMAIN ps |->
                            [key |-> ps[j].id, value |-> Num(ps[j].value)]]]

SbmlModel_has_species_with_id(self, entity_id) ==
    IF ~isinstance(self.model, "libsbml.Model") THEN AttributeError
    ELSE [exc |-> NoExc,
          value |-> Bool(getSpecies(self.model.sbml, entity_id) # 0),
          pairs |-> NoPairs]

SbmlModel_has_compartment_with_id(self, entity_id) ==
    IF ~isinstance(self.model, "libsbml.Model") THEN AttributeError
    ELSE [exc |-> NoExc,
          value |-> Bool(getCompartment(self.model.sbml, entity_id) # 0),
          pairs |-> NoPairs]

\* self.model.parameters[id_].name: the component's name, KeyError turned
\* into ValueError
PySBModel_get_parameter_value(self, id_) ==
    LET parameters == self.model.parameters
        i == FirstIndex({ j \in DOMAIN parameters : parameters[j].name = id_ })
    IN  IF ~isinstance(self.model, "pysb.Model") THEN AttributeError
        ELSE IF i = 0
        THEN [exc |-> "ValueError", value |-> None, pairs |-> NoPairs]
        ELSE [exc |-> NoExc, value |-> Str(parameters[i].name), pairs |-> NoPairs]

PySBModel_get_parameter_ids_with_values(self) ==
    LET parameters == self.model.parameters
    IN  IF ~isinstance(self.model, "pysb.Model") THEN AttributeError
        ELSE [exc |-> NoExc, value |-> None,
              pairs |-> [j \in DOMAIN parameters |->
                            [key |-> parameters[j].name,
                             value |-> Num(parameters[j].value)]]]

\* method lookup: SbmlModel defines no get_parameter_value, PySBModel defines
\* neither has_species_with_id nor has_compartment_with_id
get_parameter_value(self, id_) ==
    IF self.cls = "PySBModel" THEN PySBModel_get_parameter_value(self, id_)
    ELSE Model_get_parameter_value(self, id_)

get_parameter_ids_with_values(self) ==
    IF self.cls = "PySBModel" THEN PySBModel_get_parameter_ids_with_values(self)
    ELSE SbmlModel_get_parameter_ids_with_values(self)

has_species_with_id(self, entity_id) ==
    IF self.cls = "SbmlModel" THEN SbmlModel_has_species_with_id(self, entity_id)
    ELSE Model_has_species_with_id(self, entity_id)

has_compartment_with_id(self, entity_id) ==
    IF self.cls = "SbmlModel"
    THEN SbmlModel_has_compartment_with_id(self, entity_id)
    ELSE Model_has_compartment_with_id(self, entity_id)

(***************************************************************************)
(* Inputs of the wrappers: sources, tags, ids                              *)
(***************************************************************************)
\* SBML models: none, an assignment rule or a rate rule on parameter k1
SourceModels ==
    { BaseModel([x \in {k1, S1, C1} |-> IF x = k1 THEN t ELSE ""],
                {}, TRUE, FALSE, FALSE) :
        t \in {"", ASSIGNMENT_RULE, RATE_RULE} }

\* pysb models with parameters k1 and k2, or k2 alone
pysbA == pysb_Model(<<[name |-> k1, value |-> 5], [name |-> k2, value |-> 0]>>)
pysbB == pysb_Model(<<[name |-> k2, value |-> 6]>>)

\* the attributes of a Python module, in the order of dir(module)
ModuleAttrs ==
    { <<>>,
      <<[name |-> "model", value |-> pysbA]>>,
      <<[name |-> "model", value |-> PyDict]>>,
      <<[name |-> "model", value |-> PyNone]>>,
      <<[name |-> "m2", value |-> pysbB], [name |-> "model", value |-> PyNone]>>,
      <<[name |-> "m2", value |-> pysbB], [name |-> "model", value |-> pysbA]>>,
      <<[name |-> "m2", value |-> pysbB], [name |-> "model", value |-> PyDict]>>,
      <<[name |-> "m2", value |-> PyDict]>>,
      <<[name |-> "m2", value |-> pysbB]>> }

\* what can be handed to a loader: a path, an open file or a URL, of an SBML
\* file with a model, an SBML file without one, text that is neither SBML
\* nor Python, a Python module, or nothing at all (no file, no page)
Sources ==
    { [how |-> how, kind |-> "sbml", sbml |-> m, attrs |-> <<>>] :
        how \in {"path", "buffer", "url"}, m \in SourceModels }
    \cup { [how |-> how, kind |-> kind, sbml |-> EmptySbml, attrs |-> <<>>] :
             how \in {"path", "buffer", "url"},
             kind \in {"sbml_without_model", "text"} }
    \cup { [how |-> how, kind |-> "missing", sbml |-> EmptySbml, attrs |-> <<>>] :
             how \in {"path", "url"} }
    \cup { [how |-> "path", kind |-> "python", sbml |-> EmptySbml, attrs |-> a] :
             a \in ModuleAttrs }

ModelLanguages == {"sbml", "pysb", "SBML", "cellml"}

QueryIds == {k1, k2, S1, C1, e1}

(***************************************************************************)
(* State machine of the model wrappers                                     *)
(***************************************************************************)
NotLoaded == [op |-> "not_loaded", model_language |-> "", id_ |-> <<>>]
NoResult == [exc |-> NoExc, value |-> None, pairs |-> NoPairs, loaders |-> <<>>]

InitModels ==
    /\ \E source \in Sources : heap = [x \in {"source"} |-> source]
    /\ call = NotLoaded
    /\ ret = NoResult

\* the outcome of a load: the wrapper is on the heap when the call returned
Loaded(out) ==
    IF out.exc = NoExc
    THEN [x \in {"source", "model"} |->
             IF x = "source" THEN heap["source"] ELSE out.model]
    ELSE heap

ModelFactory ==
    /\ "model" \notin DOMAIN heap
    /\ \E model_language \in ModelLanguages :
         \E out \in {model_factory(heap["source"], model_language)} :
             /\ heap' = Loaded(out)
             /\ call' = [op |-> "model_factory",
                         model_language |-> model_language, id_ |-> <<>>]
             /\ ret' = [exc |-> out.exc, value |-> None, pairs |-> NoPairs,
                        loaders |-> out.loaders]

SbmlModelFromFile ==
    /\ "model" \notin DOMAIN heap
    /\ \E out \in {SbmlModel_from_file(heap["source"])} :
         /\ heap' = Loaded(out)
         /\ call' = [op |-> "SbmlModel.from_file",
                     model_language |-> "", id_ |-> <<>>]
         /\ ret' = [exc |-> out.exc, value |-> None, pairs |-> NoPairs,
                    loaders |-> out.loaders]

PySBModelFromFile ==
    /\ "model" \notin DOMAIN heap
    /\ \E out \in {PySBModel_from_file(heap["source"])} :
         /\ heap' = Loaded(out)
         /\ call' = [op |-> "PySBModel.from_file",
                     model_language |-> "", id_ |-> <<>>]
         /\ ret' = [exc |-> out.exc, value |-> None, pairs |-> NoPairs,
                    loaders |-> out.loaders]

\* the outcome of a query on the loaded wrapper
Queried(op, id_, out) ==
    /\ call' = [op |-> op, model_language |-> "", id_ |-> id_]
    /\ ret' = [exc |-> out.exc, value |-> out.value, pairs |-> out.pairs,
               loaders |-> <<>>]
    /\ UNCHANGED heap

GetParameterValue ==
    /\ "model" \in DOMAIN heap
    /\ \E id_ \in QueryIds :
         Queried("get_parameter_value", id_,
                 get_parameter_value(heap["model"], id_))

GetParameterIdsWithValues ==
    /\ "model" \in DOMAIN heap
    /\ Queried("get_parameter_ids_with_values", <<>>,
               get_parameter_ids_with_values(heap["model"]))

HasSpeciesWithId ==
    /\ "model" \in DOMAIN heap
    /\ \E entity_id \in QueryIds :
         Queried("has_species_with_id", entity_id,
                 has_species_with_id(heap["model"], entity_id))

HasCompartmentWithId ==
    /\ "model" \in DOMAIN heap
    /\ \E entity_id \in QueryIds :
         Queried("has_compartment_with_id", entity_id,
                 has_compartment_with_id(heap["model"], entity_id))

\* the caller drops the wrapper
Release ==
    /\ "model" \in DOMAIN heap
    /\ heap' = [x \in {"source"} |-> heap["source"]]
    /\ call' = NotLoaded
    /\ ret' = NoResult

NextModels ==
    \/ ModelFactory
    \/ SbmlModelFromFile
    \/ PySBModelFromFile
    \/ GetParameterValue
    \/ GetParameterIdsWithValues
    \/ HasSpeciesWithId
    \/ HasCompartmentWithId
    \/ Release

SpecModels == InitModels /\ [][NextModels]_vars


(***************************************************************************)
(* Properties of get_model_for_condition (under SpecCondition)             *)
(***************************************************************************)
\* the last call returned a model, and the caller has not touched it yet
Returned == call.op = "get_model_for_condition" /\ ret.exc = NoExc
\* the model the problem holds, and the model the call returned
BaseM == heap["base"]
RetM == heap[ret.ref]
\* the cell of the selected row in a column of the condition table
SelectedCell(component_id) ==
    call.condition_df.rows[call.sim_condition_id][component_id]
Columns == { call.condition_df.columns[j] : j \in DOMAIN call.condition_df.columns }
\* a str cell that does not convert to a float: a parameter reference
IsReference(cell) == cell.t = "str" /\ cell # Str(<<"1", "2">>)

\* C1: no step changes the model held by the problem: not a call that
\* returns, not a call that raises, not an edit of the returned model
C1_BaseModelNeverMutated == [][heap'["base"] = heap["base"]]_vars

\* C1 witness: a call returned a model that differs from the base model and
\* the caller has edited it since
C1_Witness_EditedAfterOverride ==
    /\ call.op = "edited"
    /\ call.parameter_map = [x \in {k1} |-> Num(1)]
    /\ S1 \in Columns
    /\ heap["clone"] # heap["base"]
    /\ heap["base"].parameters[1].value = 5

\* C2 (as claimed): in the returned model every parameter with a mapped
\* value holds the resolved value: the literal itself, zero included, or the
\* nominal value of the parameter the mapping names
C2_MappedParameterHasResolvedValue ==
    Returned =>
      \A i \in DOMAIN RetM.parameters :
        LET p == RetM.parameters[i]
            mapped == DictGet(call.parameter_map, p.id)
        IN  /\ mapped.t = "float" => p.value = mapped.n
            /\ mapped.t = "str" => /\ mapped.s \in DOMAIN call.parameter_df
                                   /\ p.value = call.parameter_df[mapped.s]

\* the entities the condition overrides: parameters with a mapped value,
\* species and compartments named by a column
Overridden(m) ==
    { m.parameters[i].id : i \in { j \in DOMAIN m.parameters :
                                     m.parameters[j].id \in DOMAIN call.parameter_map } }
    \cup { m.species[i].id : i \in { j \in DOMAIN m.species :
                                       m.species[j].id \in Columns } }
    \cup { m.compartments[i].id : i \in { j \in DOMAIN m.compartments :
                                            m.compartments[j].id \in Columns } }

HasAssignmentRule(m, sid) ==
    \E j \in DOMAIN m.rules :
        m.rules[j].typecode = ASSIGNMENT_RULE /\ m.rules[j].variable = sid
HasInitialAssignment(m, sid) ==
    \E j \in DOMAIN m.initialAssignments : m.initialAssignments[j].symbol = sid

\* C3 (as claimed): in the returned model no assignment rule and no initial
\* assignment targets an overridden entity
C3_NoRuleOnOverriddenEntity ==
    Returned =>
      \A sid \in Overridden(RetM) :
        ~HasAssignmentRule(RetM, sid) /\ ~HasInitialAssignment(RetM, sid)

\* the value a cell stands for: its number, or, for a reference, the literal
\* the mapping gives for the referenced id, or the nominal value of the
\* estimated parameter the mapping names for it
CellStandsFor(cell, n) ==
    /\ cell.t = "float" => n = cell.n
    /\ cell = Str(<<"1", "2">>) => n = 12
    /\ IsReference(cell) =>
         /\ cell.s \in DOMAIN call.parameter_map
         /\ LET mapped == call.parameter_map[cell.s]
            IN  /\ mapped.t = "float" => n = mapped.n
                /\ mapped.t = "str" => /\ mapped.s \in DOMAIN call.parameter_df
                                       /\ n = call.parameter_df[mapped.s]

\* C4: for every column naming a species or a compartment, the returned
\* model's species initial value (amount or concentration, whichever is set)
\* or compartment size is the value the selected row's cell stands for
C4_OverriddenComponentHasCellValue ==
    Returned =>
      \A c \in Columns :
        /\ \A i \in DOMAIN RetM.species :
             RetM.species[i].id = c =>
               LET sp == RetM.species[i]
               IN  /\ sp.isSetInitialAmount \/ sp.isSetInitialConcentration
                   /\ sp.isSetInitialAmount =>
                        CellStandsFor(SelectedCell(c), sp.initialAmount)
                   /\ sp.isSetInitialConcentration =>
                        CellStandsFor(SelectedCell(c), sp.initialConcentration)
        /\ \A i \in DOMAIN RetM.compartments :
             RetM.compartments[i].id = c =>
               CellStandsFor(SelectedCell(c), RetM.compartments[i].size)

\* C4 witness: species and compartment both overridden by a reference to e1,
\* which the mapping leaves to be estimated, and both hold its nominal value
C4_Witness_ReferenceResolved ==
    /\ Returned
    /\ call.sim_condition_id = condA
    /\ S1 \in Columns /\ SelectedCell(S1) = Str(e1)
    /\ C1 \in Columns /\ SelectedCell(C1) = Str(e1)
    /\ DictGet(call.parameter_map, e1) = Str(e1)
    /\ call.parameter_df = [x \in {e1} |-> 1]
    /\ RetM.species[1].isSetInitialConcentration
    /\ RetM.species[1].initialConcentration = 1
    /\ RetM.compartments[1].size = 1

\* the value kind of the overridden species S1 follows the rule of the code,
\* and exactly one of amount and concentration is set afterwards
KindRule(before, after) ==
    /\ after.isSetInitialAmount <=>
         (before.isSetInitialAmount
            \/ (before.hasOnlySubstanceUnits /\ ~before.isSetInitialConcentration))
    /\ after.isSetInitialAmount # after.isSetInitialConcentration
    /\ (before.isSetInitialAmount /\ ~before.isSetInitialConcentration)
         => after.isSetInitialAmount
    /\ (before.isSetInitialConcentration /\ ~before.isSetInitialAmount)
         => after.isSetInitialConcentration

\* C5 (as claimed): the kind rule holds, and an amount-only species ends
\* with the initial amount set and the initial concentration unset
C5_Original_AmountOnlyEndsWithAmount ==
    (Returned /\ S1 \in Columns) =>
      LET before == BaseM.species[1]
          after == RetM.species[1]
      IN  /\ KindRule(before, after)
          /\ before.hasOnlySubstanceUnits =>
               (after.isSetInitialAmount /\ ~after.isSetInitialConcentration)

\* C5 (amended): the kind rule holds, and an amount-only species that has no
\* initial concentration set, or has an initial amount set, ends with the
\* initial amount set and the initial concentration unset
C5_SpeciesValueKindPreserved ==
    (Returned /\ S1 \in Columns) =>
      LET before == BaseM.species[1]
          after == RetM.species[1]
      IN  /\ KindRule(before, after)
          /\ (before.hasOnlySubstanceUnits
                /\ (before.isSetInitialAmount \/ ~before.isSetInitialConcentration))
               => (after.isSetInitialAmount /\ ~after.isSetInitialConcentration)

\* C5 witness: an amount-only species with a concentration is overridden and
\* keeps a concentration
C5_Witness_AmountOnlyWithConcentration ==
    /\ Returned /\ S1 \in Columns
    /\ BaseM.species[1].hasOnlySubstanceUnits
    /\ BaseM.species[1].isSetInitialConcentration
    /\ ~BaseM.species[1].isSetInitialAmount
    /\ RetM.species[1].isSetInitialConcentration
    /\ ~RetM.species[1].isSetInitialAmount

\* some value looked up for the call is a reference to a parameter without a
\* row of nominal values: the mapped value of a model parameter, or the
\* mapped value of the parameter a species or compartment cell names
UnresolvedReference ==
    LET NoRow(mapped) == mapped.t = "str" /\ mapped.s \notin DOMAIN call.parameter_df
    IN  \/ \E i \in DOMAIN BaseM.parameters :
               NoRow(DictGet(call.parameter_map, BaseM.parameters[i].id))
        \/ \E c \in Columns :
               /\ getSpecies(BaseM, c) # 0 \/ getCompartment(BaseM, c) # 0
               /\ IsReference(SelectedCell(c))
               /\ NoRow(DictGet(call.parameter_map, SelectedCell(c).s))

\* C6 (as claimed): a call with an unresolved reference raises, and a call
\* that returns hands back a model with every override applied
C6_ErrorOrFullyOverriddenModel ==
    call.op = "get_model_for_condition" =>
      /\ UnresolvedReference => ret.exc # NoExc
      /\ ret.exc = NoExc =>
           /\ C2_MappedParameterHasResolvedValue
           /\ C3_NoRuleOnOverriddenEntity
           /\ C4_OverriddenComponentHasCellValue

\* the ids of the parameters, species and compartments of a model
EntityIds(m) ==
    { m.parameters[i].id : i \in DOMAIN m.parameters }
    \cup { m.species[i].id : i \in DOMAIN m.species }
    \cup { m.compartments[i].id : i \in DOMAIN m.compartments }
\* the rules of any type, and the initial assignments, that target an entity
RulesOn(m, sid) == SelectSeq(m.rules, LAMBDA r : r.variable = sid)
InitialAssignmentsOn(m, sid) ==
    SelectSeq(m.initialAssignments, LAMBDA a : a.symbol = sid)
Warned == { ret.warnings[j] : j \in DOMAIN ret.warnings }

\* C15 (as claimed): the entities a warning names are exactly those that
\* lost a rule or an initial assignment in the returned model
C15_Original_EveryRemovalWarned ==
    Returned =>
      \A sid \in EntityIds(BaseM) :
        sid \in Warned <=>
          \/ RulesOn(RetM, sid) # RulesOn(BaseM, sid)
          \/ InitialAssignmentsOn(RetM, sid) # InitialAssignmentsOn(BaseM, sid)

\* C15 (amended): the entities a warning names are exactly those that lost a
\* rule in the returned model, each named once; the removal of an initial
\* assignment alone gives no warning; a call that raises has warned only
\* about entities that had a rule, and raises the error of a lookup or of a
\* setter, never one of a warning
C15_RuleRemovalWarned ==
    call.op = "get_model_for_condition" =>
      /\ Len(ret.warnings) = Cardinality(Warned)
      /\ \A sid \in Warned : RulesOn(BaseM, sid) # <<>>
      /\ ret.exc # NoExc => ret.exc \in {"KeyError", "TypeError"}
      /\ ret.exc = NoExc =>
           \A sid \in EntityIds(BaseM) :
             /\ sid \in Warned <=> RulesOn(RetM, sid) # RulesOn(BaseM, sid)
             /\ sid \in Warned => RulesOn(RetM, sid) = <<>>

\* C15 witness: the call returned after one warning, for the compartment
\* that lost its rule, and none for the species that lost only its initial
\* assignment
C15_Witness_InitialAssignmentRemovedSilently ==
    /\ Returned
    /\ ret.warnings = <<C1>>
    /\ S1 \in Columns
    /\ RulesOn(BaseM, S1) = <<>>
    /\ InitialAssignmentsOn(BaseM, S1) # <<>>
    /\ InitialAssignmentsOn(RetM, S1) = <<>>

\* the condition table without one of its columns
WithoutColumn(df, c) ==
    [columns |-> SelectSeq(df.columns, LAMBDA x : x # c),
     rows |-> [r \in DOMAIN df.rows |->
                  [x \in DOMAIN df.rows[r] \ {c} |-> df.rows[r][x]]]]

\* C16: a column that names neither a species nor a compartment changes
\* nothing: the call raises or returns, warns, and builds the model exactly as
\* it does for the table without that column; and the species and the
\* compartments that no column names keep their base values, rules and
\* initial assignments
C16_UnknownColumnSkipped ==
    call.op = "get_model_for_condition" =>
      /\ \A c \in Columns :
           getSpecies(BaseM, c) = 0 /\ getCompartment(BaseM, c) = 0 =>
             \E out \in {get_model_for_condition(
                            [x \in {"base"} |-> BaseM], "base",
                            call.sim_condition_id,
                            WithoutColumn(call.condition_df, c),
                            call.parameter_df, call.parameter_map)} :
                 /\ ret.exc = out.exc
                 /\ ret.warnings = out.warnings
                 /\ ret.exc = NoExc => RetM = out.heap[out.ref]
      /\ ret.exc = NoExc =>
           /\ \A i \in DOMAIN BaseM.species :
                BaseM.species[i].id \notin Columns =>
                  /\ RetM.species[i] = BaseM.species[i]
                  /\ RulesOn(RetM, BaseM.species[i].id)
                       = RulesOn(BaseM, BaseM.species[i].id)
                  /\ InitialAssignmentsOn(RetM, BaseM.species[i].id)
                       = InitialAssignmentsOn(BaseM, BaseM.species[i].id)
           /\ \A i \in DOMAIN BaseM.compartments :
                BaseM.compartments[i].id \notin Columns =>
                  /\ RetM.compartments[i] = BaseM.compartments[i]
                  /\ RulesOn(RetM, BaseM.compartments[i].id)
                       = RulesOn(BaseM, BaseM.compartments[i].id)
                  /\ InitialAssignmentsOn(RetM, BaseM.compartments[i].id)
                       = InitialAssignmentsOn(BaseM, BaseM.compartments[i].id)

\* C16 witness: the table has the unknown column and a column for the
\* compartment, none for the species; the call returned a model that differs
\* from the base model, and the species has a rule and an initial assignment
C16_Witness_UnknownColumnBesideOverride ==
    /\ Returned
    /\ colX \in Columns
    /\ C1 \in Columns
    /\ S1 \notin Columns
    /\ RulesOn(BaseM, S1) # <<>>
    /\ InitialAssignmentsOn(BaseM, S1) # <<>>
    /\ RetM # BaseM

(***************************************************************************)
(* Properties of the rule helpers (under SpecRules)                        *)
(***************************************************************************)
RuleOps == {"assignment_rules_to_dict", "get_observables", "get_sigmas"}

\* C7: a call with remove=False leaves the model as it was, and when it
\* repeats the previous call (same function, same filter, remove=False both
\* times) it returns the same mapping
C7_ExtractionWithoutRemoveIsRepeatable ==
    [][(call'.op \in RuleOps /\ ~call'.remove) =>
          /\ heap' = heap
          /\ (/\ call.op = call'.op
              /\ call.filter_function = call'.filter_function
              /\ ~call.remove) => ret' = ret]_vars

\* C7 witness: an extraction with remove=False returned two entries and the
\* model still holds their rules and parameters
C7_Witness_ExtractedWithoutRemove ==
    /\ call.op = "assignment_rules_to_dict"
    /\ ~call.remove
    /\ DictKeys(ret.result) = {sigma_a, observable_a}
    /\ heap["base"] = call.before
    /\ \E j \in DOMAIN heap["base"].rules : heap["base"].rules[j].variable = sigma_a

IsParameterOf(m, sid) == \E i \in DOMAIN m.parameters : m.parameters[i].id = sid
IsRuleTargetOf(m, sid) == \E j \in DOMAIN m.rules : m.rules[j].variable = sid

\* C8: after an extraction with remove=True no returned target id is a
\* parameter or a rule target of the model, and the next extraction with the
\* same filter returns an empty mapping
C8_RemovedTargetsAreGone ==
    /\ []((call.op \in {"assignment_rules_to_dict", "get_observables"} /\ call.remove) =>
            \A key \in DictKeys(ret.result) :
               ~IsParameterOf(heap["base"], key) /\ ~IsRuleTargetOf(heap["base"], key))
    /\ [][(/\ call.op \in RuleOps /\ call.remove
           /\ call'.op \in RuleOps
           /\ call'.filter_function = call.filter_function) =>
             ret'.result = <<>>]_vars

\* C8 witness: get_observables(remove=True) returned observable_a, which the
\* model had as a parameter with an assignment rule
C8_Witness_ObservableRemoved ==
    /\ call.op = "get_observables"
    /\ call.remove
    /\ DictKeys(ret.result) = {observable_a}
    /\ IsParameterOf(call.before, observable_a)
    /\ IsRuleTargetOf(call.before, sigma_a)
    /\ IsRuleTargetOf(heap["base"], sigma_a)

\* the filter, as a condition on the target id
FilterHolds(filter_function, sid) ==
    /\ filter_function = "sbml_parameter_is_observable" =>
         (Len(sid) >= 11 /\ SubSeq(sid, 1, 11) = observable_)
    /\ filter_function = "sbml_parameter_is_sigma" =>
         (Len(sid) >= 6 /\ SubSeq(sid, 1, 6) = sigma_)

\* the rules of m an extraction with the filter returns: assignment rules
\* whose target is a parameter satisfying the filter
Matching(m, filter_function) ==
    { j \in DOMAIN m.rules :
        /\ m.rules[j].typecode = ASSIGNMENT_RULE
        /\ IsParameterOf(m, m.rules[j].variable)
        /\ FilterHolds(filter_function, m.rules[j].variable) }

\* C9: assignment_rules_to_dict returns one entry per assignment rule whose
\* target is a parameter satisfying the filter and no other entry; the entry
\* is keyed by the target id and holds the parameter's name and the rule's
\* formula; with remove=True exactly the rules and parameters of the returned
\* keys are deleted, with remove=False nothing is
C9_OneEntryPerMatchingRule ==
    call.op = "assignment_rules_to_dict" =>
      LET B == call.before
          M == heap["base"]
          R == ret.result
          Q == Matching(B, call.filter_function)
      IN  /\ Len(R) = Cardinality(Q)
          /\ \A i, j \in DOMAIN R : R[i].key = R[j].key => i = j
          /\ \A j \in Q :
               \E i \in DOMAIN R :
                 /\ R[i].key = B.rules[j].variable
                 /\ R[i].value.formula = formulaToL3String(B.rules[j].math)
                 /\ \E n \in DOMAIN B.parameters :
                      /\ B.parameters[n].id = R[i].key
                      /\ B.parameters[n].name = R[i].value.name
          /\ IF call.remove
             THEN /\ M.rules = SelectSeq(B.rules,
                                 LAMBDA r : r.variable \notin DictKeys(R))
                  /\ M.parameters = SelectSeq(B.parameters,
                                 LAMBDA q : q.id \notin DictKeys(R))
                  /\ M.species = B.species
                  /\ M.compartments = B.compartments
                  /\ M.initialAssignments = B.initialAssignments
             ELSE M = B

\* C9 witness: with rate rules on sigma_a and k1, an algebraic rule and an
\* assignment rule on species S1 in the model, the unfiltered extraction with
\* remove=True returned exactly observable_a, with its name and formula
C9_Witness_OnlyParameterAssignmentRules ==
    /\ call.op = "assignment_rules_to_dict"
    /\ call.filter_function = "all"
    /\ call.remove
    /\ \E j \in DOMAIN call.before.rules :
         /\ call.before.rules[j].variable = sigma_a
         /\ call.before.rules[j].typecode = RATE_RULE
    /\ \E j \in DOMAIN call.before.rules :
         call.before.rules[j].typecode = ALGEBRAIC_RULE
    /\ \E j \in DOMAIN call.before.rules :
         /\ call.before.rules[j].variable = S1
         /\ call.before.rules[j].typecode = ASSIGNMENT_RULE
    /\ ret.result =
         <<[key |-> observable_a,
            value |-> [name |-> <<>>,
                       formula |-> Str(<<"(", "S", "1", " ", "+", " ", "k", "1",
                                         ")", " ", "*", " ", "2">>)]]>>
    /\ Len(heap["base"].rules) = Len(call.before.rules) - 1

\* C10: get_sigmas returns one entry per assignment rule whose target
\* parameter id starts with sigma_: its key is the id with the leading sigma_
\* replaced by observable_, its value the rule's formula; there is no other
\* entry, keys are distinct and none starts with sigma_
C10_SigmaKeysRenamedToObservable ==
    call.op = "get_sigmas" =>
      LET B == call.before
          R == ret.result
          Q == Matching(B, "sbml_parameter_is_sigma")
      IN  /\ Len(R) = Cardinality(Q)
          /\ \A i, j \in DOMAIN R : R[i].key = R[j].key => i = j
          /\ \A i \in DOMAIN R :
               ~(Len(R[i].key) >= 6 /\ SubSeq(R[i].key, 1, 6) = sigma_)
          /\ \A j \in Q :
               \E i \in DOMAIN R :
                 /\ R[i].key = observable_ \o
                        SubSeq(B.rules[j].variable, 7, Len(B.rules[j].variable))
                 /\ R[i].value = formulaToL3String(B.rules[j].math)

\* C10 witness: the model has assignment rules on sigma_a, sigma_sigma_ and
\* observable_a; get_sigmas returns observable_a with the formula of sigma_a
\* and observable_sigma_ for sigma_sigma_
C10_Witness_TwoSigmasAndObservable ==
    /\ call.op = "get_sigmas"
    /\ \E j \in DOMAIN call.before.rules :
         /\ call.before.rules[j].variable = observable_a
         /\ call.before.rules[j].typecode = ASSIGNMENT_RULE
    /\ ret.result =
         <<[key |-> observable_a,
            value |-> Str(<<"k", "1", " ", "+", " ", "1", "0">>)],
           [key |-> observable_ \o sigma_, value |-> None]>>

(***************************************************************************)
(* Properties of the model wrappers (under SpecModels)                     *)
(***************************************************************************)
LoadOps == {"model_factory", "SbmlModel.from_file", "PySBModel.from_file"}

\* C11: the factory hands a source tagged "sbml" to the SBML loader and to
\* no other, and what it returns is an SbmlModel; one tagged "pysb" to the
\* PySB loader and to no other, and what it returns is a PySBModel; for any
\* other tag it raises ValueError, calls no loader and returns no model
C11_FactoryDispatchesOnTag ==
    call.op = "model_factory" =>
      CASE call.model_language = "sbml" ->
             /\ ret.loaders = <<"get_sbml_model">>
             /\ ret.exc = NoExc => heap["model"].cls = "SbmlModel"
        [] call.model_language = "pysb" ->
             /\ ret.loaders = <<"_pysb_model_from_path">>
             /\ ret.exc = NoExc => heap["model"].cls = "PySBModel"
        [] OTHER ->
             /\ ret.exc = "ValueError"
             /\ ret.loaders = <<>>
             /\ "model" \notin DOMAIN heap

\* C11 witness: the factory was called with the tag "SBML" on a path to an
\* SBML file with a model, and raised ValueError
C11_Witness_UnknownTagOnGoodSource ==
    /\ call.op = "model_factory"
    /\ call.model_language = "SBML"
    /\ heap["source"].how = "path"
    /\ heap["source"].kind = "sbml"
    /\ ret.exc = "ValueError"

\* the wrapper holds a model of its own kind
WrapsModel(self) ==
    \/ self.cls = "SbmlModel" /\ isinstance(self.model, "libsbml.Model")
    \/ self.cls = "PySBModel" /\ isinstance(self.model, "pysb.Model")

\* the parameters of the model a wrapper holds, as pairs of id and value
ParametersOf(self) ==
    IF self.cls = "SbmlModel"
    THEN { <<self.model.sbml.parameters[j].id, self.model.sbml.parameters[j].value>> :
             j \in DOMAIN self.model.sbml.parameters }
    ELSE { <<self.model.parameters[j].name, self.model.parameters[j].value>> :
             j \in DOMAIN self.model.parameters }

\* C12 (as claimed): on a wrapper that holds a model, get_parameter_value of
\* the id of a parameter returns the number the model gives the parameter,
\* the one get_parameter_ids_with_values pairs with the id; of any other id
\* it raises ValueError
C12_ParameterValueOrValueError ==
    call.op = "get_parameter_value" /\ WrapsModel(heap["model"]) =>
      LET self == heap["model"]
          pairs == get_parameter_ids_with_values(self).pairs
      IN  IF \E p \in ParametersOf(self) : p[1] = call.id_
          THEN /\ ret.exc = NoExc
               /\ \E p \in ParametersOf(self) :
                     p[1] = call.id_ /\ ret.value = Num(p[2])
               /\ \A j \in DOMAIN pairs :
                     pairs[j].key = call.id_ => ret.value = pairs[j].value
          ELSE ret.exc = "ValueError"

\* C13 (as claimed): on a PySB wrapper that holds a pysb model,
\* has_species_with_id and has_compartment_with_id return False or raise a
\* not-supported error
C13_PysbSpeciesQueryFalseOrUnsupported ==
    /\ call.op \in {"has_species_with_id", "has_compartment_with_id"}
    /\ heap["model"].cls = "PySBModel"
    /\ WrapsModel(heap["model"])
    => \/ ret.exc = NoExc /\ ret.value = Bool(FALSE)
       \/ ret.exc = "NotImplementedError"

\* the source holds a model the loader of that variant can recognise
HoldsSbmlModel(source) == source.kind = "sbml"
HoldsPysbModel(source) ==
    /\ source.kind = "python"
    /\ \E j \in DOMAIN source.attrs : isinstance(source.attrs[j].value, "pysb.Model")

\* C14 (as claimed): a load returns only a wrapper around a model of its
\* variant, and raises when the source holds no such model
C14_LoadFailsWithoutModel ==
    call.op \in LoadOps /\ ret.loaders # <<>> =>
      /\ ret.exc = NoExc => WrapsModel(heap["model"])
      /\ ret.loaders = <<"get_sbml_model">> /\ ~HoldsSbmlModel(heap["source"])
           => ret.exc # NoExc
      /\ ret.loaders = <<"_pysb_model_from_path">> /\ ~HoldsPysbModel(heap["source"])
           => ret.exc # NoExc
====
